---- MODULE Spec2Model ----
(***************************************************************************)
(* Model of src/webview.ts: the Webview wrapper class (constructor, the   *)
(* pass-through operations, bindRaw/bind, dispatch, unbind, show and       *)
(* terminate) and the library resolver getLibraryPath().                   *)
(*                                                                         *)
(* The native engine behind the FFI table (src/webview.ts:9-24) is the     *)
(* environment: it keeps the table of bound names, the FIFO queue of       *)
(* dispatched callbacks and the run-loop, and it calls the trampolines     *)
(* the wrapper registered.  JavaScript runs on one thread: while           *)
(* webview_run blocks it, wrapper methods can only be called from inside   *)
(* a trampoline (a bound function's handler or a dispatched task).         *)
(*                                                                         *)
(* Texts (JSON requests and payloads) are sequences of tokens.             *)
(***************************************************************************)
EXTENDS Integers, Sequences, FiniteSets, TLC

\* ------------------------------------------------------------------ bounds
MaxInvocations == 2
MaxTasks == 3
MaxBinds == 2
MaxDestroys == 2

Names == {"f", "g"}

\* ------------------------------------------------------- JavaScript values
Num(n) == [k |-> "number", n |-> n, s |-> <<>>]
Str(s) == [k |-> "string", n |-> 0, s |-> s]
Undefined == [k |-> "undefined", n |-> 0, s |-> <<>>]
NaN == [k |-> "NaN", n |-> 0, s |-> <<>>]
\* an Error instance: no enumerable own properties
ErrorObj == [k |-> "error", n |-> 0, s |-> <<>>]
\* an object whose properties form a cycle
CyclicObj == [k |-> "cyclic", n |-> 0, s |-> <<>>]
\* the Webview instance itself (`this`)
WebviewObj == [k |-> "webview", n |-> 0, s |-> <<>>]

Digit == <<"0", "1", "2", "3", "4", "5", "6", "7", "8", "9">>

IsDigit(tok) == \E i \in 1..10 : Digit[i] = tok

DigitVal(tok) == (CHOOSE i \in 1..10 : Digit[i] = tok) - 1

RECURSIVE NumText(_)
NumText(n) ==
    IF n < 10 THEN <<Digit[n + 1]>>
    ELSE NumText(n \div 10) \o <<Digit[(n % 10) + 1]>>

\* String(v): the string a value converts to under the + operator
ToStr(v) ==
    CASE v.k = "number" -> NumText(v.n)
      [] v.k = "string" -> v.s
      [] v.k = "undefined" -> <<"undefined">>
      [] v.k = "NaN" -> <<"NaN">>
      [] v.k = "error" -> <<"Error">>
      [] OTHER -> <<"[object Object]">>

\* the JavaScript binary + operator
Plus(a, b) ==
    IF a.k = "number" /\ b.k = "number" THEN Num(a.n + b.n)
    ELSE IF a.k \in {"number", "undefined", "NaN"} /\ b.k \in {"number", "undefined", "NaN"}
    THEN NaN
    ELSE Str(ToStr(a) \o ToStr(b))

\* JSON.stringify(v): [thrown, val]; val is a string value or undefined
JSONstringify(v) ==
    CASE v.k = "number" -> [thrown |-> FALSE, val |-> Str(NumText(v.n))]
      [] v.k = "string" -> [thrown |-> FALSE, val |-> Str(<<"\"">> \o v.s \o <<"\"">>)]
      [] v.k = "undefined" -> [thrown |-> FALSE, val |-> Undefined]
      [] v.k = "NaN" -> [thrown |-> FALSE, val |-> Str(<<"null">>)]
      [] v.k = "error" -> [thrown |-> FALSE, val |-> Str(<<"{", "}">>)]
      [] v.k = "cyclic" -> [thrown |-> TRUE, val |-> ErrorObj]
      [] OTHER -> [thrown |-> FALSE, val |-> Str(<<"{", "\"WindowHint\"", ":", "{", "}", "}">>)]

\* JSON.parse(txt) for the texts the model draws requests from: an array of
\* one-digit numbers; any other text is a SyntaxError.
RECURSIVE ParseElems(_, _, _)
ParseElems(txt, i, acc) ==
    IF i > Len(txt) THEN [ok |-> FALSE, val |-> <<>>]
    ELSE IF ~IsDigit(txt[i]) THEN [ok |-> FALSE, val |-> <<>>]
    ELSE IF i + 1 > Len(txt) THEN [ok |-> FALSE, val |-> <<>>]
    ELSE IF txt[i + 1] = "]"
         THEN [ok |-> (i + 1 = Len(txt)), val |-> Append(acc, Num(DigitVal(txt[i])))]
    ELSE IF txt[i + 1] = ","
         THEN ParseElems(txt, i + 2, Append(acc, Num(DigitVal(txt[i]))))
    ELSE [ok |-> FALSE, val |-> <<>>]

JSONparse(txt) ==
    IF Len(txt) < 2 \/ txt[1] # "[" THEN [ok |-> FALSE, val |-> <<>>]
    ELSE IF txt[2] = "]" THEN [ok |-> (Len(txt) = 2), val |-> <<>>]
    ELSE ParseElems(txt, 2, <<>>)

\* request strings the native engine delivers: the JSON array of the
\* arguments of the script call ("[1,2]", "[]")
Requests ==
    { <<"[", "1", ",", "2", "]">>, <<"[", "]">> }

\* --------------------------------------------------------- user handlers
\* A handler is an arbitrary JavaScript function: what it does on one call is
\* drawn, per call, from the behaviours below.
\* behaviours of a handler given to bind(): fn(w, ...args)
Handlers == {"sum", "sumW", "throwError", "throwCyclic", "retUndefined", "retCyclic"}

\* behaviours of a handler given to bindRaw(): fn(w, req) returning
\* [isSuccess, result]
RawHandlers == {"rawEcho", "rawFail", "rawThrow"}

Arg(args, i) == IF i <= Len(args) THEN args[i] ELSE Undefined

\* the outcome of calling a bind() handler with the positional arguments args
HandlerCall(fn, args) ==
    CASE fn = "sum" -> [thrown |-> FALSE, val |-> Plus(Arg(args, 1), Arg(args, 2))]
      [] fn = "sumW" -> [thrown |-> FALSE, val |-> Plus(Arg(args, 2), Arg(args, 3))]
      [] fn = "throwError" -> [thrown |-> TRUE, val |-> ErrorObj]
      [] fn = "throwCyclic" -> [thrown |-> TRUE, val |-> CyclicObj]
      [] fn = "retUndefined" -> [thrown |-> FALSE, val |-> Undefined]
      [] OTHER -> [thrown |-> FALSE, val |-> CyclicObj]

\* the outcome of calling a bindRaw() handler
RawHandlerCall(fn, req) ==
    CASE fn = "rawEcho" -> [thrown |-> FALSE, isSuccess |-> TRUE, result |-> Str(req)]
      [] fn = "rawFail" -> [thrown |-> FALSE, isSuccess |-> FALSE, result |-> Str(<<"\"no\"">>)]
      [] OTHER -> [thrown |-> TRUE, isSuccess |-> FALSE, result |-> Undefined]

\* the arguments bind()'s closure passes to fn: fn(w, ...args)
BindArgs(w, parsed) == <<w>> \o parsed

\* the closure bind() hands to bindRaw(): (w, req) => [isSuccess, result]
BindAdapter(fn, w, req) ==
    LET p == JSONparse(req) IN
    IF ~p.ok THEN [thrown |-> TRUE, isSuccess |-> FALSE, result |-> Undefined]
    ELSE LET r == HandlerCall(fn, BindArgs(w, p.val)) IN
         IF ~r.thrown
         THEN LET t == JSONstringify(r.val) IN
              IF ~t.thrown
              THEN [thrown |-> FALSE, isSuccess |-> TRUE, result |-> t.val]
              ELSE LET e == JSONstringify(t.val) IN
                   [thrown |-> e.thrown, isSuccess |-> FALSE, result |-> e.val]
         ELSE LET e == JSONstringify(r.val) IN
              [thrown |-> e.thrown, isSuccess |-> FALSE, result |-> e.val]

\* the arguments the user's handler is called with
HandlerArgs(kind, w, req) ==
    IF kind = "bind" THEN BindArgs(w, JSONparse(req).val) ELSE <<w, Str(req)>>

\* a status computed the other way round
StatusOfInverted(isSuccess) == IF isSuccess THEN 1 ELSE 0

\* the status bindRaw() passes to webview_return: isSuccess ? 0 : 1
StatusOf(isSuccess) == IF isSuccess THEN 0 ELSE 1

\* webview_return(this.webview, seq, status, result) as the engine records it
Return(rets, seq, status) ==
    [rets EXCEPT ![seq] = [n |-> rets[seq].n + 1, status |-> status]]

\* the callback bindRaw() registers: what it does with the handler's outcome
Trampoline(kind, fn, w, req) ==
    IF kind = "bind" THEN BindAdapter(fn, w, req) ELSE RawHandlerCall(fn, req)

\* the callbacks' outcomes, tabulated over the handler behaviours and the
\* request strings of the model, with the Webview instance as `this`
Outcome ==
    [kind \in {"bind", "raw"} |->
        [fn \in Handlers \cup RawHandlers |->
            [req \in Requests |->
                [r |-> Trampoline(kind, fn, WebviewObj, req),
                 args |-> HandlerArgs(kind, WebviewObj, req)]]]]

\* ------------------------------------------------------------------ state
VARIABLES
    pc,        \* "new", "ready", "running" (inside webview_run), "returned", "crashed"
    handle,    \* this.webview: "none", "valid", "null", "destroyed"
    stop,      \* the native run-loop has been asked to exit
    bindings,  \* native engine: name -> the callback bound under it
    retained,  \* callbacks captured by the process 'exit' listeners
    queue,     \* native engine: dispatched callbacks not yet serviced
    events,    \* start/end events of dispatched closures
    cur,       \* the trampoline the run-loop is executing
    last,      \* the invocation that just ended, until the run-loop moves on
    returns,   \* per sequence token: webview_return operations issued, last status
    escaped,   \* sequence tokens whose trampoline threw into the native caller
    nextSeq,   \* next sequence token the engine hands out
    nBinds,    \* callbacks created by bindRaw so far
    nextTask,  \* next dispatched task
    destroys,  \* webview_destroy operations issued
    misuse,    \* "null"/"destroyed": a native operation was last issued on such a handle
    platform, arch, dstExists, srcExists, fsLog, libResult, resolves

wvars == <<pc, handle, stop, bindings, retained, queue, events, cur, last,
           returns, escaped, nextSeq, nBinds, nextTask, destroys, misuse>>

rvars == <<platform, arch, dstExists, srcExists, fsLog, libResult, resolves>>

vars == <<pc, handle, stop, bindings, retained, queue, events, cur, last,
          returns, escaped, nextSeq, nBinds, nextTask, destroys, misuse,
          platform, arch, dstExists, srcExists, fsLog, libResult, resolves>>

NoBinding == [k |-> 0, kind |-> "none"]

NoCall == [kind |-> "none", seq |-> 0, name |-> "", k |-> 0, req |-> <<>>, task |-> 0]

NoLast == [seq |-> 0, name |-> "", k |-> 0, kind |-> "none", fn |-> "", req |-> <<>>,
           args |-> <<>>, outcome |-> "none", status |-> 0, result |-> Undefined]

NoReturn == [n |-> 0, status |-> 0]

NoResult == [status |-> "none", path |-> <<>>, msg |-> <<>>]

InitWebview ==
    /\ pc = "new"
    /\ handle = "none"
    /\ stop = FALSE
    /\ bindings = [n \in Names |-> NoBinding]
    /\ retained = {}
    /\ queue = <<>>
    /\ events = <<>>
    /\ cur = NoCall
    /\ last = NoLast
    /\ returns = [q \in 1..MaxInvocations |-> NoReturn]
    /\ escaped = {}
    /\ nextSeq = 1
    /\ nBinds = 0
    /\ nextTask = 1
    /\ destroys = 0
    /\ misuse = "none"

Init ==
    /\ InitWebview
    /\ platform = "linux"
    /\ arch = "x64"
    /\ dstExists = FALSE
    /\ srcExists = TRUE
    /\ fsLog = <<>>
    /\ libResult = NoResult
    /\ resolves = 0

\* JavaScript can call a wrapper method: before show(), after show() has
\* returned, or from inside a trampoline while webview_run blocks the thread
CanCall ==
    \/ pc \in {"ready", "returned"}
    \/ pc = "running" /\ cur.kind # "none"

\* what a native operation on this.webview can do: on a valid handle it
\* takes effect; on a null or destroyed handle the behaviour is undefined
\* (the process dies, or the call returns without effect)
Outcomes == IF handle = "valid" THEN {"ok"} ELSE {"crash", "noeffect"}

\* this.lib.<op>(this.webview, ...): the wrapper passes the handle unchecked
Issue(op) == misuse' = IF handle = "valid" THEN misuse ELSE handle

\* the process dies inside the native operation op: nothing stays queued,
\* bound or retained; what the engine was asked to do remains on record
Crash(op) ==
    /\ pc' = "crashed"
    /\ Issue(op)
    /\ bindings' = [n \in Names |-> NoBinding]
    /\ retained' = {}
    /\ queue' = <<>>
    /\ events' = <<>>
    /\ cur' = NoCall
    /\ last' = NoLast
    /\ returns' = [q \in 1..MaxInvocations |-> NoReturn]
    /\ escaped' = {}
    /\ nextSeq' = 1
    /\ nBinds' = 0
    /\ nextTask' = 1
    /\ UNCHANGED <<handle, stop, destroys>>
    /\ UNCHANGED rvars

\* ------------------------------------------------------------ constructor
\* new Webview(debug, libPath): webview_create may give a null pointer;
\* console.assert only prints, so the constructor completes either way
Constructor ==
    /\ pc = "new"
    /\ \E h \in {"valid", "null"} : handle' = h
    /\ pc' = "ready"
    /\ UNCHANGED <<misuse, stop, bindings, retained, queue, events, cur, last, returns,
                   escaped, nextSeq, nBinds, nextTask, destroys>>
    /\ UNCHANGED rvars

\* -------------------------------------------------- pass-through methods
PassThrough(op) ==
    /\ CanCall
    /\ \E o \in Outcomes :
        \/ o = "crash" /\ Crash(op)
        \/ /\ o # "crash"
           /\ Issue(op)
           /\ UNCHANGED <<pc, handle, stop, bindings, retained, queue, events, cur,
                          last, returns, escaped, nextSeq, nBinds, nextTask, destroys>>
           /\ UNCHANGED rvars

\* title(), navigate(), html(), size(), init() and eval() have one body:
\* each hands this.webview and its arguments to its native operation
passThrough == PassThrough("webview_set_title")

\* a registration that would keep no reference to the callback
RetainNothing(set, cb) == set

\* process.on('exit', function() { callback; }): the listener's closure keeps
\* the callback reachable; no code removes the listener
Retain(set, cb) == set \cup {cb}

\* ---------------------------------------------------------- bindRaw, bind
\* bindRaw's body, for the callback kind ("raw": the handler is the user's
\* raw handler; "bind": it is wrapped by bind()'s closure).  webview_bind
\* makes the engine call the new callback under the name; the 'exit'
\* listener keeps the callback reachable.
BindRawBody(name, kind) ==
    /\ CanCall
    /\ nBinds < MaxBinds
    /\ \E o \in Outcomes :
        \/ o = "crash" /\ Crash("webview_bind")
        \/ /\ o # "crash"
           /\ Issue("webview_bind")
           /\ nBinds' = nBinds + 1
           /\ bindings' = IF o = "ok"
                          THEN [bindings EXCEPT ![name] = [k |-> nBinds + 1, kind |-> kind]]
                          ELSE bindings
           /\ retained' = Retain(retained, [kind |-> "bind", name |-> name, k |-> nBinds + 1])
           /\ UNCHANGED <<pc, handle, stop, queue, events, cur, last, returns,
                          escaped, nextSeq, nextTask, destroys>>
           /\ UNCHANGED rvars

bindRaw == \E name \in Names : BindRawBody(name, "raw")

bind == \E name \in Names : BindRawBody(name, "bind")

\* ---------------------------------------------------------------- unbind
\* webview_unbind removes the name from the engine's table; nothing else
unbind ==
    /\ CanCall
    /\ \E name \in Names, o \in Outcomes :
        \/ o = "crash" /\ Crash("webview_unbind")
        \/ /\ o # "crash"
           /\ Issue("webview_unbind")
           /\ bindings' = IF o = "ok" THEN [bindings EXCEPT ![name] = NoBinding] ELSE bindings
           /\ UNCHANGED <<pc, handle, stop, retained, queue, events, cur, last,
                          returns, escaped, nextSeq, nBinds, nextTask, destroys>>
           /\ UNCHANGED rvars

\* -------------------------------------------------------------- dispatch
\* a dispatch that would put the new callback in front of the waiting ones
EnqueueFront(q, t) == <<t>> \o q

\* a dispatch that would hand the callback to the engine twice
EnqueueTwice(q, t) == Append(Append(q, t), t)

\* webview_dispatch: the engine appends the callback to its queue
Enqueue(q, t) == Append(q, t)

dispatch ==
    /\ CanCall
    /\ nextTask <= MaxTasks
    /\ \E o \in Outcomes :
        \/ o = "crash" /\ Crash("webview_dispatch")
        \/ /\ o # "crash"
           /\ Issue("webview_dispatch")
           /\ nextTask' = nextTask + 1
           /\ queue' = IF o = "ok" THEN Enqueue(queue, nextTask) ELSE queue
           /\ retained' = Retain(retained, [kind |-> "dispatch", name |-> "", k |-> nextTask])
           /\ UNCHANGED <<pc, handle, stop, bindings, events, cur, last, returns,
                          escaped, nextSeq, nBinds, destroys>>
           /\ UNCHANGED rvars

\* ------------------------------------------------------------- terminate
\* webview_terminate asks the run-loop to exit; with no loop running the
\* request is kept or lost, depending on the platform
terminate ==
    /\ CanCall
    /\ \E o \in Outcomes :
        \/ o = "crash" /\ Crash("webview_terminate")
        \/ /\ o # "crash"
           /\ Issue("webview_terminate")
           /\ \/ o = "ok" /\ stop' = TRUE
              \/ o = "ok" /\ pc = "ready" /\ stop' = stop
              \/ o # "ok" /\ stop' = stop
           /\ UNCHANGED <<pc, handle, bindings, retained, queue, events, cur, last,
                          returns, escaped, nextSeq, nBinds, nextTask, destroys>>
           /\ UNCHANGED rvars

\* ------------------------------------------------------------------ show
\* show(), first half: webview_run is entered and blocks the thread.  On a
\* handle that is not valid webview_run is undefined: the process dies, or
\* the call returns at once and show() goes on to webview_destroy.
\* a show() that would leave the handle as it found it
KeptHandle(h) == h

\* webview_destroy: what this.webview refers to afterwards
DestroyedHandle(h) == IF h = "null" THEN "null" ELSE "destroyed"

showRun ==
    /\ pc \in {"ready", "returned"}
    /\ \/ /\ handle = "valid"
          /\ pc' = "running"
          /\ Issue("webview_run")
          /\ UNCHANGED <<handle, destroys>>
       \/ /\ handle # "valid"
          /\ destroys < MaxDestroys
          /\ pc' = "returned"
          /\ Issue("webview_destroy")
          /\ destroys' = destroys + 1
          /\ handle' = DestroyedHandle(handle)
    /\ UNCHANGED <<stop, bindings, retained, queue, events, cur, last, returns,
                   escaped, nextSeq, nBinds, nextTask>>
    /\ UNCHANGED rvars

\* webview_run or webview_destroy on a handle that is not valid kills the process
showCrash ==
    /\ pc \in {"ready", "returned"}
    /\ handle # "valid"
    /\ Crash("webview_run")

\* show(), second half: the run-loop has exited, webview_run returns and
\* webview_destroy frees the engine with its bindings and its queue
showDestroy ==
    /\ pc = "running"
    /\ cur.kind = "none"
    /\ stop
    /\ pc' = "returned"
    /\ Issue("webview_destroy")
    /\ destroys' = destroys + 1
    /\ handle' = DestroyedHandle(handle)
    /\ bindings' = [n \in Names |-> NoBinding]
    /\ queue' = <<>>
    /\ last' = NoLast
    /\ UNCHANGED <<stop, retained, events, cur, returns, escaped,
                   nextSeq, nBinds, nextTask>>
    /\ UNCHANGED rvars

\* ------------------------------------------------- the engine's run-loop
\* Each iteration of the loop runs one callback to its end; once asked to
\* exit, the loop leaves at the next iteration boundary.
\* the user closes the window
WindowClose ==
    /\ pc = "running"
    /\ cur.kind = "none"
    /\ ~stop
    /\ stop' = TRUE
    /\ UNCHANGED <<pc, handle, bindings, retained, queue, events, cur, last,
                   returns, escaped, nextSeq, nBinds, nextTask, destroys, misuse>>
    /\ UNCHANGED rvars

\* script calls a bound name: the engine calls the callback registered under
\* it with a fresh sequence token and the request string
InvokeStart ==
    /\ pc = "running"
    /\ cur.kind = "none"
    /\ ~stop
    /\ nextSeq <= MaxInvocations
    /\ \E name \in Names, req \in Requests :
        LET b == bindings[name] IN
        /\ b.kind # "none"
        /\ cur' = [kind |-> b.kind, seq |-> nextSeq, name |-> name, k |-> b.k,
                   req |-> req, task |-> 0]
    /\ nextSeq' = nextSeq + 1
    /\ last' = NoLast
    /\ UNCHANGED <<pc, handle, stop, bindings, retained, queue, events, returns,
                   escaped, nBinds, nextTask, destroys, misuse>>
    /\ UNCHANGED rvars

\* the handler is over, having behaved as fn: the callback of bindRaw issues
\* webview_return with the sequence token, or the exception leaves the callback
InvokeEnd ==
    /\ pc = "running"
    /\ cur.kind \in {"bind", "raw"}
    /\ cur' = NoCall
    /\ \E fn \in (IF cur.kind = "bind" THEN Handlers ELSE RawHandlers) :
       LET r == Outcome[cur.kind][fn][cur.req].r
           c == [NoLast EXCEPT !.seq = cur.seq, !.name = cur.name, !.k = cur.k,
                                 !.kind = cur.kind, !.fn = fn, !.req = cur.req,
                                 !.args = Outcome[cur.kind][fn][cur.req].args]
       IN
       IF r.thrown
       THEN /\ escaped' = escaped \cup {cur.seq}
            /\ last' = [c EXCEPT !.outcome = "escaped"]
            /\ UNCHANGED <<returns, misuse>>
       ELSE /\ returns' = Return(returns, cur.seq, StatusOf(r.isSuccess))
            /\ last' = [c EXCEPT !.outcome = "returned",
                                 !.status = StatusOf(r.isSuccess), !.result = r.result]
            /\ Issue("webview_return")
            /\ UNCHANGED escaped
    /\ UNCHANGED <<pc, handle, stop, bindings, retained, queue, events,
                   nextSeq, nBinds, nextTask, destroys>>
    /\ UNCHANGED rvars

\* the run-loop services the oldest dispatched callback: fn(this) starts
TaskStart ==
    /\ pc = "running"
    /\ cur.kind = "none"
    /\ ~stop
    /\ queue # <<>>
    /\ cur' = [NoCall EXCEPT !.kind = "task", !.task = Head(queue)]
    /\ queue' = Tail(queue)
    /\ events' = Append(events, [task |-> Head(queue), ev |-> "start"])
    /\ last' = NoLast
    /\ UNCHANGED <<pc, handle, stop, bindings, retained, returns, escaped,
                   nextSeq, nBinds, nextTask, destroys, misuse>>
    /\ UNCHANGED rvars

\* fn(this) returns
TaskEnd ==
    /\ pc = "running"
    /\ cur.kind = "task"
    /\ cur' = NoCall
    /\ events' = Append(events, [task |-> cur.task, ev |-> "end"])
    /\ UNCHANGED <<pc, handle, stop, bindings, retained, queue, last, returns,
                   escaped, nextSeq, nBinds, nextTask, destroys, misuse>>
    /\ UNCHANGED rvars

Next ==
    \/ Constructor
    \/ passThrough
    \/ bindRaw
    \/ bind
    \/ unbind
    \/ dispatch
    \/ terminate
    \/ showRun
    \/ showCrash
    \/ showDestroy
    \/ WindowClose
    \/ InvokeStart
    \/ InvokeEnd
    \/ TaskStart
    \/ TaskEnd

Spec == Init /\ [][Next]_vars

\* ------------------------------------------------------- getLibraryPath
MaxResolves == 2

\* process.platform and process.arch
Platforms == {"linux", "win32", "darwin", "freebsd", "openbsd"}

Archs == {"x64", "ia32", "arm64", "arm"}

\* ffi-napi's LIB_EXT for the platform
LIB_EXT(p) == IF p = "win32" THEN ".dll" ELSE IF p = "darwin" THEN ".dylib" ELSE ".so"

\* libName.replace(/^(lib)/, '')
StripLib(name) == IF Len(name) > 0 /\ name[1] = "lib" THEN Tail(name) ELSE name

\* ['linux','win32','darwin'].includes(platform) && arch == 'x64'
Supported(p, a) == p \in {"linux", "win32", "darwin"} /\ a = "x64"

Dst == <<".", "WebView2Loader.dll">>

Src(p, a) == <<"__dirname", "libs", p, a, "WebView2Loader.dll">>

\* a resolver that would copy the loader file without looking for it first
GetLibraryPathAlwaysCopies(p, a, dst, src) ==
    LET win == p = "win32"
        libName == IF win THEN <<"webview", ".dll">> ELSE <<"lib", "webview", ".so">>
        copy == IF win THEN <<[op |-> "copyFileSync", path |-> <<"libs", p, a>>]>> ELSE <<>>
    IN
    IF win /\ ~src
    THEN [status |-> "Error", path |-> <<>>, msg |-> <<"ENOENT">>, fs |-> copy, dst |-> dst]
    ELSE IF p \in {"linux", "win32", "darwin"} /\ a = "x64"
    THEN [status |-> "path", path |-> <<"__dirname", "libs", p, a>> \o libName, msg |-> <<>>,
          fs |-> copy, dst |-> dst \/ win]
    ELSE [status |-> "ReferenceError", path |-> <<>>, msg |-> <<"Unsupported pattform: ", p, a>>,
          fs |-> copy, dst |-> dst \/ win]

\* getLibraryPath() on platform p and architecture a, with the loader file
\* present (dst) or not in the working directory and present (src) or not in
\* the package: the result, the file-system calls made, and whether the
\* working directory holds the loader file afterwards
GetLibraryPath(p, a, dst, src) ==
    LET win == p = "win32"
        libName == IF win THEN StripLib(<<"lib", "webview", LIB_EXT(p)>>)
                   ELSE <<"lib", "webview", LIB_EXT(p)>>
        exists == IF win THEN <<[op |-> "existsSync", path |-> Dst]>> ELSE <<>>
        copies == win /\ ~dst
        copy == IF copies THEN <<[op |-> "copyFileSync", path |-> Src(p, a)]>> ELSE <<>>
    IN
    IF copies /\ ~src
    THEN [status |-> "Error", path |-> <<>>, msg |-> <<"ENOENT">>,
          fs |-> exists \o copy, dst |-> dst]
    ELSE IF Supported(p, a)
    THEN [status |-> "path", path |-> <<"__dirname", "libs", p, a>> \o libName, msg |-> <<>>,
          fs |-> exists \o copy, dst |-> dst \/ copies]
    ELSE [status |-> "ReferenceError", path |-> <<>>,
          msg |-> <<"Unsupported pattform: ", p, a>>,
          fs |-> exists \o copy, dst |-> dst \/ copies]

getLibraryPath ==
    /\ resolves < MaxResolves
    /\ LET r == GetLibraryPath(platform, arch, dstExists, srcExists) IN
        /\ libResult' = [status |-> r.status, path |-> r.path, msg |-> r.msg]
        /\ fsLog' = fsLog \o r.fs
        /\ dstExists' = r.dst
    /\ resolves' = resolves + 1
    /\ UNCHANGED <<platform, arch, srcExists>>
    /\ UNCHANGED wvars

\* the package ships the loader file for the supported Windows build
InitResolver ==
    /\ InitWebview
    /\ platform \in Platforms
    /\ arch \in Archs
    /\ dstExists \in BOOLEAN
    /\ srcExists \in BOOLEAN
    /\ (platform = "win32" /\ arch = "x64") => srcExists
    /\ (platform # "win32") => ~srcExists
    /\ fsLog = <<>>
    /\ libResult = NoResult
    /\ resolves = 0

NextResolver == getLibraryPath

SpecResolver == InitResolver /\ [][NextResolver]_vars

\* ================================================================ claims

\* how often the closure of task t has been started, and has ended
Fired(t) == Cardinality({i \in DOMAIN events : events[i] = [task |-> t, ev |-> "start"]})

Ended(t) == Cardinality({i \in DOMAIN events : events[i] = [task |-> t, ev |-> "end"]})

Submitted == 1..(nextTask - 1)

Queued == {queue[i] : i \in DOMAIN queue}

\* an invocation before seq was rejected or threw out of its trampoline
EarlierFailed(seq) ==
    \E q \in 1..MaxInvocations : q < seq /\ (q \in escaped \/ (returns[q].n > 0 /\ returns[q].status # 0))

\* C1: when the handler of a function bound with bind() throws, the return
\* operation of that invocation is issued with a non-zero status; and an
\* invocation that follows a failed one and whose handler does not throw is
\* answered with status 0.
C1_HandlerErrorIsolated ==
    (last.kind = "bind") =>
        LET r == HandlerCall(last.fn, last.args) IN
        /\ r.thrown => (last.outcome = "returned" /\ last.status # 0 /\ returns[last.seq].n = 1)
        /\ (~r.thrown /\ EarlierFailed(last.seq)) => (last.outcome = "returned" /\ last.status = 0)

\* C2: every invocation the engine delivered to a trampoline (bind or
\* bindRaw, handler returning or throwing) that has ended has exactly one
\* return operation with its sequence token, and no exception left the
\* trampoline.
C2_ExactlyOneReturn ==
    \A q \in 1..MaxInvocations :
        (q < nextSeq /\ cur.seq # q) => (returns[q].n = 1 /\ q \notin escaped)

\* C3: a function bound with bind() is called with the elements of the
\* request array as its positional arguments and answered with status 0 and
\* the JSON text of its result: (a, b) => a + b invoked with [1, 2] gives "3".
C3_PositionalArguments ==
    (last.kind = "bind") =>
        /\ last.args = JSONparse(last.req).val
        /\ (last.fn = "sum" /\ last.req = <<"[", "1", ",", "2", "]">>) =>
               (last.outcome = "returned" /\ last.status = 0 /\ last.result = Str(<<"3">>))

\* C4: after show() has returned and destroyed the handle, no native
\* operation is issued on the destroyed handle.
C4_NoUseAfterDestroy == misuse # "destroyed"

\* C5: webview_destroy is never issued a second time for the handle.
C5_DestroyedOnce == destroys <= 1

\* C6: when webview_create returns a null handle the constructor does not
\* complete: no constructed wrapper holds a null handle.
C6_NullHandleIsFatal == ~(handle = "null" /\ pc \in {"ready", "running", "returned"})

\* C7: unbind(name) releases the trampoline retained for the name, and an
\* invocation only ever runs the callback currently bound under its name.
C7_UnbindReleases ==
    [][ /\ \A n \in Names :
             (bindings[n].kind # "none" /\ bindings'[n].kind = "none" /\ handle' = "valid")
                 => ~\E r \in retained' : r.kind = "bind" /\ r.name = n
        /\ (cur.kind = "none" /\ cur'.kind \in {"bind", "raw"})
                 => bindings[cur'.name].k = cur'.k ]_vars

\* C8: dispatched tasks fire in the order they were submitted, each ending
\* before the next starts: the events are 1-start, 1-end, 2-start, 2-end, ...
C8_DispatchOrder ==
    \A i \in DOMAIN events :
        events[i] = [task |-> (i + 1) \div 2, ev |-> IF i % 2 = 1 THEN "start" ELSE "end"]

\* C8 witness: every task of a full burst has started and ended
C8_AllTasksRan == Len(events) = 2 * MaxTasks

\* C9 as stated: every submitted task fires exactly once and none stays
\* pending: once show() has returned (the run-loop is gone and nothing can
\* fire any more) every task submitted on the live handle has fired once.
C9_EveryTaskFires ==
    /\ \A t \in Submitted : Fired(t) <= 1
    /\ (pc = "returned" /\ misuse = "none") => \A t \in Submitted : Fired(t) = 1

\* C9 as amended: a task fires at most once, only after it was submitted,
\* never while it is still queued, and its closure ends no more often than
\* it starts; a task still pending when the run-loop exits stays unfired.
C9_TaskFiresAtMostOnce ==
    \A t \in 1..MaxTasks :
        /\ Fired(t) <= 1
        /\ Ended(t) <= Fired(t)
        /\ Fired(t) = 1 => (t \in Submitted /\ t \notin Queued)
        /\ (pc = "returned" /\ Fired(t) = 0) => t \notin Queued

\* C9 witness: show() returned on a live handle after task 1 fired, with
\* task 2 submitted and never fired
C9_OneFiredOnePending ==
    /\ pc = "returned"
    /\ misuse = "none"
    /\ Fired(1) = 1
    /\ 2 \in Submitted
    /\ Fired(2) = 0

\* C10: for an unsupported platform/architecture pair getLibraryPath() fails
\* with the unsupported-platform error naming both, without any file-system
\* access.
C10_UnsupportedFailsFast ==
    (resolves > 0 /\ ~Supported(platform, arch)) =>
        /\ libResult.status = "ReferenceError"
        /\ libResult.msg = <<"Unsupported pattform: ", platform, arch>>
        /\ fsLog = <<>>

\* copyFileSync calls made so far
Copied == Cardinality({i \in DOMAIN fsLog : fsLog[i].op = "copyFileSync"})

\* C11: staging the loader file is idempotent: a call of getLibraryPath()
\* that follows an earlier call returns the same path when the earlier one
\* returned a path (it never fails on a supported platform), copies nothing
\* when the destination already exists, and leaves the destination in place.
C11_StagingIdempotent ==
    [][ (resolves >= 1 /\ resolves' = resolves + 1) =>
            /\ (libResult.status = "path" => libResult' = libResult)
            /\ (Supported(platform, arch) => libResult'.status = "path")
            /\ (dstExists => (Copied' = Copied /\ dstExists'))
            /\ ((platform = "win32" /\ libResult'.status = "path") => dstExists') ]_vars

\* C11 witness: on Windows the first call copied the loader file and the
\* second call returned the path without copying again
C11_SecondCallNoCopy ==
    /\ resolves = 2
    /\ platform = "win32"
    /\ libResult.status = "path"
    /\ dstExists
    /\ Copied = 1

\* C12: a handler bound with bindRaw() receives the request string as the
\* engine delivered it, and the return operation carries the handler's
\* payload unchanged, with status 0 for a true success flag and 1 for false.
C12_RawPassThrough ==
    (last.kind = "raw") =>
        LET r == RawHandlerCall(last.fn, last.req) IN
        /\ last.args = <<WebviewObj, Str(last.req)>>
        /\ ~r.thrown =>
              /\ last.outcome = "returned"
              /\ returns[last.seq].n = 1
              /\ last.result = r.result
              /\ last.status = (IF r.isSuccess THEN 0 ELSE 1)
              /\ returns[last.seq].status = last.status

\* C12 witness: a raw handler reported failure and the call was rejected
C12_RawRejected ==
    /\ last.kind = "raw"
    /\ last.fn = "rawFail"
    /\ last.outcome = "returned"
    /\ last.status = 1

\* trampolines the bridge retains for bindings of name n
RetainedFor(n) == {r \in retained : r.kind = "bind" /\ r.name = n}

\* C13: a name has at most one active binding: after binding a name that is
\* already bound, the bridge retains one trampoline for the name.
C13_OneTrampolinePerName ==
    \A n \in Names :
        (handle = "valid" /\ misuse = "none" /\ bindings[n].kind # "none") =>
            Cardinality(RetainedFor(n)) <= 1

\* C14: the bridge retains the trampoline of every active binding and of
\* every dispatched task that has not finished.
C14_LiveTrampolinesRetained ==
    /\ \A n \in Names :
          bindings[n].kind # "none" =>
              [kind |-> "bind", name |-> n, k |-> bindings[n].k] \in retained
    /\ \A t \in Queued : [kind |-> "dispatch", name |-> "", k |-> t] \in retained
    /\ cur.kind = "task" => [kind |-> "dispatch", name |-> "", k |-> cur.task] \in retained
    /\ cur.kind \in {"bind", "raw"} =>
          [kind |-> "bind", name |-> cur.name, k |-> cur.k] \in retained

\* C14 witness: the run-loop is executing a bound function's trampoline
\* while a dispatched task waits in the queue
C14_BindingAndTaskLive ==
    /\ pc = "running"
    /\ cur.kind \in {"bind", "raw"}
    /\ bindings[cur.name].k = cur.k
    /\ queue # <<>>

\* C15: once a dispatched task has fired and its closure has ended, the
\* bridge no longer retains its trampoline.
C15_FiredTaskReleased ==
    \A r \in retained : r.kind = "dispatch" => Ended(r.k) = 0

\* text is JSON text: a number, null, a string literal, an object or an array
IsJSONText(v) ==
    /\ v.k = "string"
    /\ Len(v.s) > 0
    /\ \/ \A i \in 1..Len(v.s) : IsDigit(v.s[i])
       \/ v.s = <<"null">>
       \/ Len(v.s) >= 2 /\ v.s[1] = "\"" /\ v.s[Len(v.s)] = "\""
       \/ Len(v.s) >= 2 /\ v.s[1] = "{" /\ v.s[Len(v.s)] = "}"
       \/ JSONparse(v.s).ok

\* C16: for every invocation of a function bound with bind(), the payload
\* passed to the return operation is a string of valid JSON text, whatever
\* the handler returned or threw.
C16_PayloadIsJSON ==
    (last.kind = "bind" /\ last.outcome = "returned") => IsJSONText(last.result)

\* C17: terminate() does not cancel an in-flight handler: from the call of
\* terminate() on, the handle stays valid while the handler runs, and when
\* the handler is over its return operation has been issued.
C17_ReturnIssuedAfterTerminate ==
    [][ (cur.kind \in {"bind", "raw"} /\ (stop \/ stop')) =>
            /\ handle' = "valid"
            /\ pc' = "running"
            /\ destroys' = destroys
            /\ \/ cur' = cur
               \/ /\ cur' = NoCall
                  /\ last'.seq = cur.seq
                  /\ last'.outcome = "returned"
                  /\ returns'[cur.seq].n = returns[cur.seq].n + 1 ]_vars

\* ------------------------------------------------------------- fairness
\* The thread inside webview_run keeps running: a callback the run-loop has
\* entered comes to its end, and a loop that has been asked to exit and is
\* between callbacks leaves webview_run.
LoopProgress == InvokeEnd \/ TaskEnd \/ showDestroy

FairSpec == Spec /\ WF_vars(LoopProgress)

\* C18: once the run-loop has been asked to exit while it is running, show()
\* eventually returns with the handle destroyed.
C18_TerminateLeadsToDestroy ==
    (pc = "running" /\ stop) ~> (pc = "returned" /\ handle = "destroyed" /\ destroys >= 1)

\* C18 witness: terminate() has been called from inside a callback of the
\* running loop, which has yet to exit
C18_TerminateInsideCallback ==
    /\ pc = "running"
    /\ stop
    /\ cur.kind \in {"bind", "raw", "task"}
    /\ handle = "valid"
    /\ destroys = 0

====
